---------------------------- MODULE Spec2Model ----------------------------
(***************************************************************************)
(* A model of textmaker (src/textmaker.py, src/src/tmfonts.py).            *)
(*                                                                         *)
(* A Python str is a sequence of one-character strings, a Python list a    *)
(* sequence, a Python dict an association list (a sequence of [key, val]   *)
(* entries in insertion order, which is the order Python iterates in).     *)
(*                                                                         *)
(* Three specifications share the variables:                               *)
(*   SpecWrap  Font.wraptext, one action per pass of its while loop;       *)
(*   SpecPure  eval_predicate, merge_dicts and the repeat pagination, as   *)
(*             functions applied to inputs drawn from bounded sets;        *)
(*   Spec      parse_input, the orchestrator.                              *)
(***************************************************************************)
EXTENDS Integers, Sequences, FiniteSets, TLC

VARIABLES
    \* Font.wraptext
    wtext,          \* the text argument
    maxwidth,       \* the maxwidth argument
    textcut,        \* the text still to wrap
    textout,        \* the wrapped text so far
    wbreaks,        \* history: the kind of every line break put into textout
    wpc,            \* "idle" | "loop" | "done"
    \* a function applied to inputs (SpecPure)
    call,           \* the function and its arguments
    ret,            \* what it returned, once it has
    \* parse_input
    parse_queue,    \* the pending argument groups
    ngenerated,     \* frames written so far
    parts,          \* out/parts: the frames written, in the order of their numbers
    output,         \* out/textbox.png: the stacked frames
    pc,             \* "idle" | "loop" | "layout" | "frame" | "pop" | "done" | "raised" | "hung"
    error,          \* the exception that ended the invocation
    group,          \* history: how many groups have been taken off the queue to parse
    style,          \* the locals of the group being processed
    predicate_data,
    keys,
    text,
    textboxes,      \* textbox -> the text it renders in the next frame
    repeater,       \* <<>> for None, <<textbox>> otherwise
    torepeat        \* torepeat["text"]

wvars == <<wtext, maxwidth, textcut, textout, wbreaks, wpc>>
fvars == <<call, ret>>

pvars == <<parse_queue, ngenerated, parts, output, pc, error, group, style,
           predicate_data, keys, text, textboxes, repeater, torepeat>>

vars == <<wtext, maxwidth, textcut, textout, wbreaks, wpc, call, ret,
          parse_queue, ngenerated, parts, output, pc, error, group, style,
          predicate_data, keys, text, textboxes, repeater, torepeat>>

-----------------------------------------------------------------------------
(* Bounds *)

MaxLen == 5         \* longest text handed to wraptext
MaxWidth == 5       \* largest maxwidth handed to wraptext
MaxBreaks == 7      \* line breaks after which a wrap loop is no longer followed
MaxOrGroups == 2    \* "|"-separated groups of a predicate
MaxAndAtoms == 2    \* "&"-separated atoms of a group
MaxLines == 3       \* largest line count and threshold of a lines atom
MaxWrapped == 6     \* longest wrapped text paginated
MaxBudget == 3      \* largest line budget of a textbox
MaxArgs == 4        \* arguments after the style name on the command line

-----------------------------------------------------------------------------
(* Python built-ins *)

\* The element of a one-element set.  Only({e : x \in {v}}) is e with x bound
\* to v: a local variable assigned once and read afterwards.
Only(S) == CHOOSE x \in S : TRUE

Min(a, b) == IF a < b THEN a ELSE b
Max(a, b) == IF a > b THEN a ELSE b

NL == "\n"
SP == " "

\* An index of a slice, as Python clamps it: negative counts from the end.
PyIndex(n, i) == IF i < 0 THEN Max(n + i, 0) ELSE Min(i, n)

\* s[lo:hi]
PySlice(s, lo, hi) ==
    LET l == PyIndex(Len(s), lo)
        h == PyIndex(Len(s), hi)
    IN  IF l < h THEN SubSeq(s, l + 1, h) ELSE <<>>

\* s[lo:]
PyFrom(s, lo) == PySlice(s, lo, Len(s))

\* s.rfind(ch, lo, hi): the last 0-based index of ch in s[lo:hi], or -1.
PyRFind(s, ch, lo, hi) ==
    LET l == PyIndex(Len(s), lo)
        h == PyIndex(Len(s), hi)
        hits == {i \in l .. (h - 1) : s[i + 1] = ch}
    IN  IF hits = {} THEN -1 ELSE CHOOSE i \in hits : \A j \in hits : j <= i

\* s.count(ch)
PyCount(s, ch) == Cardinality({i \in 1 .. Len(s) : s[i] = ch})

\* s.split(sep) for a one-character sep: the pieces between the separators.
RECURSIVE PySplit(_, _)
PySplit(s, sep) ==
    LET hits == {i \in 1 .. Len(s) : s[i] = sep}
    IN  IF hits = {} THEN <<s>>
        ELSE LET i == CHOOSE h \in hits : \A g \in hits : h <= g
             IN  <<SubSeq(s, 1, i - 1)>> \o PySplit(SubSeq(s, i + 1, Len(s)), sep)

\* Every sequence of at most n elements of S.
RECURSIVE SeqsUpTo(_, _)
SeqsUpTo(S, n) ==
    IF n = 0 THEN {<<>>}
    ELSE LET shorter == SeqsUpTo(S, n - 1)
         IN  shorter \cup {Append(s, c) : s \in {t \in shorter : Len(t) = n - 1}, c \in S}

\* math.floor(math.log2(n) + 1) for n >= 1: the number of binary digits of n.
RECURSIVE FloorLog2Plus1(_)
FloorLog2Plus1(n) == IF n <= 1 THEN 1 ELSE 1 + FloorLog2Plus1(n \div 2)

-----------------------------------------------------------------------------
(* Font.textsize: the width the external text measurer reports.  The       *)
(* measurer is modelled as a fixed-advance font: every character has a     *)
(* width and a line is as wide as the sum of its characters.               *)

Alphabet == {"a", "W", SP}

CharWidth(c) == IF c = "W" THEN 2 ELSE 1

RECURSIVE textsize(_)
textsize(t) == IF t = <<>> THEN 0 ELSE CharWidth(Head(t)) + textsize(Tail(t))

-----------------------------------------------------------------------------
(* Font.wraptext *)

\* One probe of the binary search: the range and last_below after it, and
\* whether the for loop breaks.
Probe(tc, mw, startpos, endpos, last_below) ==
    LET curpos == (Len(PySlice(tc, startpos, endpos)) \div 2) + startpos
        textwidth == textsize(PySlice(tc, 0, curpos))
    IN  IF textwidth < mw
          THEN [startpos |-> curpos + 1, endpos |-> endpos,
                last_below |-> curpos, brk |-> FALSE]
          ELSE IF textwidth > mw
            THEN [startpos |-> startpos, endpos |-> curpos - 1,
                  last_below |-> last_below, brk |-> FALSE]
            ELSE [startpos |-> startpos, endpos |-> endpos,
                  last_below |-> curpos, brk |-> TRUE]

\* The for loop: `left` probes remain.
RECURSIVE BinarySearch(_, _, _, _, _, _)
BinarySearch(tc, mw, startpos, endpos, last_below, left) ==
    IF left = 0 THEN last_below
    ELSE LET p == Probe(tc, mw, startpos, endpos, last_below)
         IN  IF p.brk THEN p.last_below
             ELSE BinarySearch(tc, mw, p.startpos, p.endpos, p.last_below, left - 1)

LastBelow(tc, mw) == BinarySearch(tc, mw, 0, Len(tc), 0, FloorLog2Plus1(Len(tc)))

BreakPos(tc, last_below) == PyRFind(tc, SP, 0, last_below + 1)

\* What remains after a break at a space, and after a break inside a word.
AfterWordBreak(tc, breakpos) == PyFrom(tc, breakpos + 1)

AfterHardBreak_SkipsOne(tc, last_below) == PyFrom(tc, last_below + 1)
AfterHardBreak(tc, last_below) == PyFrom(tc, last_below)

\* One pass of the while loop over a non-empty textcut: what is appended to
\* textout, what remains, whether the loop is left, and the kind of break.
WrapPass(tc, mw, break_on_any) ==
    IF textsize(tc) < mw
      THEN [add |-> tc, rest |-> tc, stop |-> TRUE, kind |-> "none"]
      ELSE LET last_below == LastBelow(tc, mw)
               breakpos == BreakPos(tc, last_below)
           IN  IF breakpos = -1 \/ break_on_any
                 THEN [add |-> PySlice(tc, 0, last_below) \o <<NL>>,
                       rest |-> AfterHardBreak(tc, last_below),
                       stop |-> FALSE, kind |-> "hard"]
                 ELSE [add |-> PySlice(tc, 0, breakpos) \o <<NL>>,
                       rest |-> AfterWordBreak(tc, breakpos),
                       stop |-> FALSE, kind |-> "word"]

WrapIdle ==
    /\ wtext = <<>>
    /\ maxwidth = 0
    /\ textcut = <<>>
    /\ textout = <<>>
    /\ wbreaks = <<>>
    /\ wpc = "idle"

WrapInit ==
    /\ wtext \in SeqsUpTo(Alphabet, MaxLen)
    /\ maxwidth \in 1 .. MaxWidth
    /\ textcut = wtext
    /\ textout = <<>>
    /\ wbreaks = <<>>
    /\ wpc = "loop"

\* while len(textcut) > 0 fails: return.
WrapReturn ==
    /\ wpc = "loop"
    /\ Len(textcut) = 0
    /\ wpc' = "done"
    /\ UNCHANGED <<wtext, maxwidth, textcut, textout, wbreaks>>
    /\ UNCHANGED <<fvars, pvars>>

\* One pass of the while loop.
WrapLoop ==
    /\ wpc = "loop"
    /\ Len(textcut) > 0
    /\ Len(wbreaks) < MaxBreaks
    /\ LET p == WrapPass(textcut, maxwidth, FALSE)
       IN  /\ textout' = textout \o p.add
           /\ textcut' = IF p.stop THEN textcut ELSE p.rest
           /\ wbreaks' = IF p.stop THEN wbreaks ELSE Append(wbreaks, p.kind)
           /\ wpc' = IF p.stop THEN "done" ELSE "loop"
    /\ UNCHANGED <<wtext, maxwidth>>
    /\ UNCHANGED <<fvars, pvars>>

WrapNext == WrapReturn \/ WrapLoop

-----------------------------------------------------------------------------
(* Python strings and dicts *)

S_default == <<"d", "e", "f", "a", "u", "l", "t">>
S_exists == <<"e", "x", "i", "s", "t", "s">>
S_flag == <<"f", "l", "a", "g">>
S_lines == <<"l", "i", "n", "e", "s">>
S_text == <<"t", "e", "x", "t">>
S_key == <<"k", "e", "y">>

\* s.find(ch, lo): the first 0-based index of ch in s[lo:], or -1.
PyFind(s, ch, lo) ==
    LET hits == {i \in PyIndex(Len(s), lo) .. (Len(s) - 1) : s[i + 1] = ch}
    IN  IF hits = {} THEN -1 ELSE CHOOSE i \in hits : \A j \in hits : i <= j

\* s.partition(ch): what is before the first ch and what is after it.
PyPartition(s, ch) ==
    LET i == PyFind(s, ch, 0)
    IN  IF i = -1 THEN [head |-> s, tail |-> <<>>]
        ELSE [head |-> PySlice(s, 0, i), tail |-> PyFrom(s, i + 1)]

\* sep.join(pieces) for a one-character sep.
RECURSIVE PyJoin(_, _)
PyJoin(pieces, sep) ==
    IF pieces = <<>> THEN <<>>
    ELSE IF Len(pieces) = 1 THEN pieces[1]
    ELSE pieces[1] \o <<sep>> \o PyJoin(Tail(pieces), sep)

\* x in list
InList(list, x) == \E i \in 1 .. Len(list) : list[i] = x

\* key in d, d[key], d[key] = val, d.keys()
HasKey(d, k) == \E i \in 1 .. Len(d) : d[i].key = k
Get(d, k) == d[CHOOSE i \in 1 .. Len(d) : d[i].key = k].val
Put(d, k, v) ==
    IF HasKey(d, k)
      THEN [i \in 1 .. Len(d) |-> IF d[i].key = k THEN [key |-> k, val |-> v] ELSE d[i]]
      ELSE Append(d, [key |-> k, val |-> v])
Keys(d) == [i \in 1 .. Len(d) |-> d[i].key]
KeySet(d) == {d[i].key : i \in 1 .. Len(d)}

\* A value of a configuration tree: a dict, or a leaf (a scalar or a list).
Dict(d) == [t |-> "dict", v |-> d]
Leaf(x) == [t |-> "leaf", v |-> x]
IsDict(x) == x.t = "dict"

-----------------------------------------------------------------------------
(* find_nth *)

RECURSIVE find_nth_loop(_, _, _, _)
find_nth_loop(haystack, needle, start, n) ==
    IF start >= 0 /\ n > 1
      THEN find_nth_loop(haystack, needle, PyFind(haystack, needle, start + 1), n - 1)
      ELSE start

find_nth(haystack, needle, n) ==
    find_nth_loop(haystack, needle, PyFind(haystack, needle, 0), n)

-----------------------------------------------------------------------------
(* merge_dicts *)

\* The second loop keeps the keys of b that a does not have.
OnlyInB_Never(a, key) == FALSE
OnlyInB(a, key) == ~HasKey(a, key)

RECURSIVE merge_dicts(_, _)

\* for key in a, from the i-th key on.
RECURSIVE MergeLoopA(_, _, _, _)
MergeLoopA(a, b, i, result) ==
    IF i > Len(a) THEN result
    ELSE LET key == a[i].key
             val == IF HasKey(b, key)
                      THEN IF IsDict(a[i].val) /\ IsDict(Get(b, key))
                             THEN Dict(merge_dicts(a[i].val.v, Get(b, key).v))
                             ELSE Get(b, key)
                      ELSE a[i].val
         IN  MergeLoopA(a, b, i + 1, Put(result, key, val))

\* for key in b, from the i-th key on.
RECURSIVE MergeLoopB(_, _, _, _)
MergeLoopB(a, b, i, result) ==
    IF i > Len(b) THEN result
    ELSE MergeLoopB(a, b, i + 1,
                    IF OnlyInB(a, b[i].key)
                      THEN Put(result, b[i].key, b[i].val)
                      ELSE result)

merge_dicts(a, b) == MergeLoopB(a, b, 1, MergeLoopA(a, b, 1, <<>>))

-----------------------------------------------------------------------------
(* eval_predicate: "True", "False", or the exception it raises *)

\* predicate_data["lines"][tname] > val: the count is an int (lines 408, 413
\* and 471 store ints) and val a str (cut out of the predicate), and Python 3
\* raises TypeError for the comparison of an int with a str.
IntGreaterThanStr(count, val) == "TypeError"

\* One atom: presult after it, or the exception.
EvalAtom(ppart, pdata, presult) ==
    LET ptype == PyPartition(ppart, ":").head
        pval == PyPartition(ppart, ":").tail
    IN  IF ptype = S_exists \/ ptype = S_flag
          THEN IF ~HasKey(pdata, ptype) \/ ~InList(Get(pdata, ptype), pval)
                 THEN "False" ELSE presult
        ELSE IF ptype = S_lines
          THEN IF HasKey(pdata, ptype)
                 THEN LET tname == PyPartition(pval, ">").head
                          val == PyPartition(pval, ">").tail
                      IN  IF ~HasKey(Get(pdata, ptype), tname) THEN "False"
                          ELSE LET gt == IntGreaterThanStr(Get(Get(pdata, ptype), tname), val)
                               IN  IF gt = "TypeError" THEN "TypeError"
                                   ELSE IF gt = "False" THEN "False" ELSE presult
                 ELSE "False"
        ELSE presult

\* for ppart in ppart_or.split("&"), from the i-th atom on.
RECURSIVE EvalAnd(_, _, _, _)
EvalAnd(pparts, pdata, i, presult) ==
    IF i > Len(pparts) THEN presult
    ELSE LET r == EvalAtom(pparts[i], pdata, presult)
         IN  IF r = "TypeError" THEN r ELSE EvalAnd(pparts, pdata, i + 1, r)

\* The separators of the two splits.
OrSeparator_Swapped == "&"
OrSeparator == "|"
AndSeparator == "&"

\* for ppart_or in predicate.split("|"), from the i-th group on.
RECURSIVE EvalOr(_, _, _)
EvalOr(groups, pdata, i) ==
    IF i > Len(groups) THEN "False"
    ELSE LET presult == EvalAnd(PySplit(groups[i], AndSeparator), pdata, 1, "True")
         IN  IF presult = "False" THEN EvalOr(groups, pdata, i + 1) ELSE presult

eval_predicate(predicate, pdata) ==
    IF predicate = S_default THEN "True"
    ELSE EvalOr(PySplit(predicate, OrSeparator), pdata, 1)

-----------------------------------------------------------------------------
(* parse_input: the pagination of a repeating textbox (lines 385-397) *)

\* Where the chunk after `done` chunks starts.
ChunkStart_OnBreak(wrapped_text, budget, done) ==
    find_nth(wrapped_text, NL, budget * done)
ChunkStart(wrapped_text, budget, done) ==
    find_nth(wrapped_text, NL, budget * done) + 1

\* while start >= 0, with the chunks collected so far.
RECURSIVE PaginateLoop(_, _, _, _)
PaginateLoop(wrapped_text, budget, start, texts) ==
    IF start < 0 THEN texts \o <<PyFrom(wrapped_text, start)>>
    ELSE LET end == find_nth(wrapped_text, NL, budget * (Len(texts) + 1))
         IN  IF end < 0 THEN texts \o <<PyFrom(wrapped_text, start)>>
             ELSE LET more == Append(texts, PySlice(wrapped_text, start, end))
                  IN  PaginateLoop(wrapped_text, budget,
                                   ChunkStart(wrapped_text, budget, Len(more)), more)

Paginate(wrapped_text, budget) == PaginateLoop(wrapped_text, budget, 0, <<>>)

-----------------------------------------------------------------------------
(* SpecPure: eval_predicate, merge_dicts and the pagination applied to     *)
(* inputs drawn from bounded sets                                          *)

\* Every sequence of 1 .. n elements of S.
SeqsFrom1(S, n) == SeqsUpTo(S, n) \ {<<>>}

\* The atoms of the predicates tried: flag:x, exists:text:t.
AtomKinds == {[kind |-> S_flag, value |-> <<"x">>],
              [kind |-> S_exists, value |-> S_text \o <<":", "t">>]}

\* A predicate as it is written in style.json: atoms joined by "&" into
\* groups, groups joined by "|".
AtomText(atom) == atom.kind \o <<":">> \o atom.value
GroupText(grp) == PyJoin([i \in 1 .. Len(grp) |-> AtomText(grp[i])], "&")
PredicateText(ast) == PyJoin([i \in 1 .. Len(ast) |-> GroupText(ast[i])], "|")

PredicateAsts == SeqsFrom1(SeqsFrom1(AtomKinds, MaxAndAtoms), MaxOrGroups)

\* predicate_data with the flag and exists categories present or missing.
FlagLists == {<<>>, <<<<"x">>>>, <<<<"y">>>>, <<<<"y">>, <<"x">>>>}
ExistsLists == {<<>>, <<S_text \o <<":", "t">>>>}
FactsOf(flags, exists) ==
    (IF flags = "missing" THEN <<>> ELSE <<[key |-> S_flag, val |-> flags]>>)
    \o (IF exists = "missing" THEN <<>> ELSE <<[key |-> S_exists, val |-> exists]>>)
FlagExistsFacts ==
    {FactsOf("missing", "missing")}
    \cup {FactsOf(f, "missing") : f \in FlagLists}
    \cup {FactsOf("missing", e) : e \in ExistsLists}
    \cup {FactsOf(f, e) : f \in FlagLists, e \in ExistsLists}

\* lines atoms lines:<tname>><threshold> and predicate_data with line counts.
TextboxNames == {<<"t">>, <<"u">>}
Digit(n) == CASE n = 0 -> "0" [] n = 1 -> "1" [] n = 2 -> "2" [] n = 3 -> "3"
              [] n = 4 -> "4" [] n = 5 -> "5" [] n = 6 -> "6" [] n = 7 -> "7"
              [] n = 8 -> "8" [] n = 9 -> "9"
LinesAtomText(tname, threshold) == S_lines \o <<":">> \o tname \o <<">", Digit(threshold)>>
LinesDicts ==
    {<<>>} \cup {<<[key |-> n, val |-> c]>> : n \in TextboxNames, c \in 1 .. MaxLines}
LinesFacts ==
    {<<[key |-> S_flag, val |-> <<>>], [key |-> S_exists, val |-> <<>>]>>}
    \cup {<<[key |-> S_flag, val |-> <<>>], [key |-> S_exists, val |-> <<>>],
            [key |-> S_lines, val |-> d]>> : d \in LinesDicts}

\* Configuration trees two levels deep over the keys x and y.
TreeKeys == {<<"x">>, <<"y">>}
Leaves == {Leaf(1), Leaf(2)}
DictsOver(keyorders, vals) ==
    UNION {{[i \in 1 .. Len(ks) |-> [key |-> ks[i], val |-> vs[i]]] :
                vs \in [1 .. Len(ks) -> vals]} : ks \in keyorders}
InnerTrees == DictsOver({<<>>, <<<<"x">>>>, <<<<"y">>>>, <<<<"x">>, <<"y">>>>}, Leaves)
Trees == DictsOver({<<>>, <<<<"x">>>>, <<<<"y">>>>, <<<<"x">>, <<"y">>>>, <<<<"y">>, <<"x">>>>},
                   Leaves \cup {Dict(d) : d \in InnerTrees})

\* Wrapped texts: lines of a's; pagination runs when there are more lines
\* than the textbox's line budget.
WrappedTexts == SeqsUpTo({"a", NL}, MaxWrapped)

PureInit ==
    /\ ret = [done |-> FALSE]
    /\ \/ \E ast \in PredicateAsts, pd \in FlagExistsFacts :
            call = [fn |-> "eval_predicate", form |-> "dnf", ast |-> ast,
                    predicate |-> PredicateText(ast), predicate_data |-> pd]
       \/ \E pd \in FlagExistsFacts :
            call = [fn |-> "eval_predicate", form |-> "default", ast |-> <<>>,
                    predicate |-> S_default, predicate_data |-> pd]
       \/ \E n \in TextboxNames, th \in 0 .. MaxLines, pd \in LinesFacts :
            call = [fn |-> "eval_predicate", form |-> "lines", tname |-> n,
                    threshold |-> th, predicate |-> LinesAtomText(n, th),
                    predicate_data |-> pd]
       \/ \E a \in Trees, b \in Trees :
            call = [fn |-> "merge_dicts", a |-> a, b |-> b]
       \/ \E w \in WrappedTexts, budget \in 1 .. MaxBudget :
            /\ PyCount(w, NL) + 1 > budget
            /\ call = [fn |-> "paginate", wrapped_text |-> w, budget |-> budget]

PureIdle ==
    /\ call = [fn |-> "none"]
    /\ ret = [done |-> FALSE]

ApplyEvalPredicate ==
    /\ call.fn = "eval_predicate"
    /\ ~ret.done
    /\ ret' = [done |-> TRUE, val |-> eval_predicate(call.predicate, call.predicate_data)]
    /\ UNCHANGED call
    /\ UNCHANGED <<wvars, pvars>>

ApplyMergeDicts ==
    /\ call.fn = "merge_dicts"
    /\ ~ret.done
    /\ ret' = [done |-> TRUE, val |-> merge_dicts(call.a, call.b)]
    /\ UNCHANGED call
    /\ UNCHANGED <<wvars, pvars>>

ApplyPaginate ==
    /\ call.fn = "paginate"
    /\ ~ret.done
    /\ ret' = [done |-> TRUE, val |-> Paginate(call.wrapped_text, call.budget)]
    /\ UNCHANGED call
    /\ UNCHANGED <<wvars, pvars>>

PureNext == ApplyEvalPredicate \/ ApplyMergeDicts \/ ApplyPaginate

-----------------------------------------------------------------------------
(* The resources directory: styles.json, and each style's style.json and   *)
(* map.json.  A textbox is kept as its text field, its size (width, line   *)
(* budget) and its overflow policy; fonts, images and positions, which     *)
(* only the external canvas reads, are left out, and every textbox is      *)
(* measured by textsize.                                                   *)

S_textboxes == <<"t", "e", "x", "t", "b", "o", "x", "e", "s">>
S_size == <<"s", "i", "z", "e">>
S_overflow == <<"o", "v", "e", "r", "f", "l", "o", "w">>
S_repeat == <<"r", "e", "p", "e", "a", "t">>
S_rtext == <<"r", "t", "e", "x", "t">>
S_NONE == <<"!", "N", "O", "N", "E", "!">>
S_REPEAT == <<"!", "R", "E", "P", "E", "A", "T", "!">>
S_fcolon == <<"f", ":">>

Entry(k, v) == [key |-> k, val |-> v]

Textbox(field, width, budget, repeats) ==
    Dict(<<Entry(S_text, Leaf(field)), Entry(S_size, Leaf(<<width, budget>>))>>
         \o (IF repeats THEN <<Entry(S_overflow, Leaf(S_repeat))>> ELSE <<>>))

Fragment(boxes) == <<Entry(S_textboxes, Dict(boxes))>>

\* styles.json
get_styles == {<<"r">>, <<"l">>, <<"d">>, <<"k">>, <<"n">>}

\* style.json of each style:
\*   r  one repeating textbox b, two lines of width 2; flag x makes it one line
\*   l  the same textbox, and a fragment chosen by the predicate lines:b>1
\*   d  two textboxes declared repeating, t (one line) and b (two lines)
\*   k  a key and a textbox t that does not repeat
\*   n  a repeating textbox of width 1, too narrow for any character
StyleJson(sty) ==
    CASE sty = <<"r">> ->
           [syntax |-> S_rtext \o <<":", "b">>,
            predicates |-> <<
              Entry(S_default, Fragment(<<Entry(<<"b">>, Textbox(<<"b">>, 2, 2, TRUE))>>)),
              Entry(S_flag \o <<":", "x">>,
                    Fragment(<<Entry(<<"b">>, Dict(<<Entry(S_size, Leaf(<<2, 1>>))>>))>>))>>]
      [] sty = <<"l">> ->
           [syntax |-> S_rtext \o <<":", "b">>,
            predicates |-> <<
              Entry(S_default, Fragment(<<Entry(<<"b">>, Textbox(<<"b">>, 2, 2, TRUE))>>)),
              Entry(S_lines \o <<":", "b", ">", "1">>,
                    Fragment(<<Entry(<<"b">>, Dict(<<Entry(<<"c", "o", "l", "o", "r">>, Leaf(1))>>))>>))>>]
      [] sty = <<"d">> ->
           [syntax |-> S_text \o <<":", "t", " ">> \o S_rtext \o <<":", "b">>,
            predicates |-> <<
              Entry(S_default, Fragment(<<Entry(<<"t">>, Textbox(<<"t">>, 2, 1, TRUE)),
                                          Entry(<<"b">>, Textbox(<<"b">>, 2, 2, TRUE))>>))>>]
      [] sty = <<"k">> ->
           [syntax |-> S_key \o <<":", "k", " ">> \o S_text \o <<":", "t">>,
            predicates |-> <<
              Entry(S_default, Fragment(<<Entry(<<"t">>, Textbox(<<"t">>, 2, 2, FALSE))>>))>>]
      [] sty = <<"n">> ->
           [syntax |-> S_rtext \o <<":", "b">>,
            predicates |-> <<
              Entry(S_default, Fragment(<<Entry(<<"b">>, Textbox(<<"b">>, 1, 2, TRUE))>>))>>]

\* map.json of each sty: sty k maps the value a of its key k to a path.
MapJson(sty) ==
    IF sty = <<"k">>
      THEN <<Entry(<<"k">>, <<Entry(<<"a">>, <<"a", ".", "p", "n", "g">>)>>)>>
      ELSE <<>>

\* The command line: a style name and at most MaxArgs arguments.
StyleArgs == get_styles \cup {<<"z">>}
Tokens == {<<"a">>, <<"a", "a", "a">>, S_REPEAT, S_NONE, S_fcolon \o <<"x">>}
Inputs == {<<>>} \cup {<<s>> \o a : s \in StyleArgs, a \in SeqsUpTo(Tokens, MaxArgs)}

-----------------------------------------------------------------------------
(* merge_data *)

\* for predicate in style_data["predicates"].keys(), from the i-th on: the
\* merged data, or the exception eval_predicate raises.
RECURSIVE MergeDataLoop(_, _, _, _)
MergeDataLoop(predicates, pdata, i, result) ==
    IF i > Len(predicates) THEN [exc |-> "", data |-> result]
    ELSE Only({
           IF holds = "TypeError" THEN [exc |-> "TypeError", data |-> result]
           ELSE Only({ MergeDataLoop(predicates, pdata, i + 1, merged)
                       : merged \in {IF holds = "True"
                                       THEN merge_dicts(result, predicates[i].val)
                                       ELSE result} })
           : holds \in {eval_predicate(predicates[i].key, pdata)} })

merge_data(style_data, pdata) ==
    MergeDataLoop(style_data.predicates, pdata, 1, <<>>)

-----------------------------------------------------------------------------
(* Font.wraptext as parse_input calls it: its result, or that it never     *)
(* returns.  A pass is a function of textcut alone, so the loop never ends *)
(* once a pass leaves textcut as it was.                                   *)

RECURSIVE WrapFrom(_, _, _)
WrapFrom(tc, out, mw) ==
    IF Len(tc) = 0 THEN [returns |-> TRUE, textout |-> out]
    ELSE Only({
           IF p.stop THEN [returns |-> TRUE, textout |-> out \o p.add]
           ELSE IF p.rest = tc THEN [returns |-> FALSE, textout |-> out]
           ELSE WrapFrom(p.rest, out \o p.add, mw)
           : p \in {WrapPass(tc, mw, FALSE)} })

wraptext(t, mw) ==
    Only({ [returns |-> w.returns, textout |-> w.textout,
            nlines |-> PyCount(w.textout, NL) + 1]
           : w \in {WrapFrom(t, <<>>, mw)} })

-----------------------------------------------------------------------------
(* parse_input: parsing one argument group (lines 296-352) *)

\* s.split(): the pieces between runs of spaces.
PySplitWs(s) == SelectSeq(PySplit(s, SP), LAMBDA p : p # <<>>)

\* parse_key: keys after the call, or its ValueError.
parse_key(key_mappings, ks, name, val) ==
    IF HasKey(key_mappings, name)
      THEN IF HasKey(Get(key_mappings, name), val)
             THEN [exc |-> "", keys |-> Put(ks, name, Get(Get(key_mappings, name), val))]
             ELSE [exc |-> "ValueError: value does not exist in mapping table", keys |-> ks]
      ELSE [exc |-> "", keys |-> Put(ks, name, val)]

\* while args[0].startswith("f:")
RECURSIVE ParseFlags(_, _)
ParseFlags(args, flags) ==
    IF args = <<>> THEN [exc |-> "IndexError", args |-> args, flags |-> flags]
    ELSE IF PySlice(args[1], 0, 2) = S_fcolon
      THEN ParseFlags(Tail(args), Append(flags, PyFrom(args[1], 2)))
      ELSE [exc |-> "", args |-> args, flags |-> flags]

\* args = args[repeat_at + 1:]: what rtext leaves behind the first !REPEAT!.
RtextResidual_KeepsMarker(args, repeat_at) == PyFrom(args, repeat_at)
RtextResidual(args, repeat_at) == PyFrom(args, repeat_at + 1)

\* One token of the syntax, applied to the locals st.
ParseSyntaxPart(syntaxpart, key_mappings, st) ==
    Only({
      IF stype = S_key
        THEN IF st.args = <<>> THEN [st EXCEPT !.exc = "IndexError"]
             ELSE IF st.args[1] # S_NONE
               THEN Only({
                      IF k.exc # "" THEN [st EXCEPT !.exc = k.exc]
                      ELSE [st EXCEPT !.exists = Append(@, S_key \o <<":">> \o sval),
                                      !.keys = k.keys,
                                      !.args = Tail(@)]
                      : k \in {parse_key(key_mappings, st.keys, sval, st.args[1])} })
               ELSE [st EXCEPT !.args = Tail(@)]
      ELSE IF stype = S_text
        THEN IF st.args = <<>> THEN [st EXCEPT !.exc = "IndexError"]
             ELSE IF st.args[1] # S_NONE
               THEN [st EXCEPT !.exists = Append(@, S_text \o <<":">> \o sval),
                               !.text = Put(@, sval, st.args[1]),
                               !.args = Tail(@)]
               ELSE [st EXCEPT !.args = Tail(@)]
      ELSE IF stype = S_rtext
        THEN IF ~InList(st.args, S_REPEAT)
               THEN [st EXCEPT !.exists = Append(@, S_text \o <<":">> \o sval),
                               !.text = Put(@, sval, PyJoin(st.args, SP)),
                               !.args = <<>>]
               ELSE Only({
                      [st EXCEPT !.exists = Append(@, S_text \o <<":">> \o sval),
                                 !.text = Put(@, sval, PyJoin(PySlice(st.args, 0, repeat_at), SP)),
                                 !.args = RtextResidual(st.args, repeat_at)]
                      : repeat_at \in {(CHOOSE i \in 1 .. Len(st.args) :
                                            /\ st.args[i] = S_REPEAT
                                            /\ \A j \in 1 .. (i - 1) : st.args[j] # S_REPEAT) - 1} })
      ELSE st
      : stype \in {PyPartition(syntaxpart, ":").head},
        sval \in {PyPartition(syntaxpart, ":").tail} })

\* for syntaxpart in style_data["syntax"].split(), from the i-th token on.
RECURSIVE ParseSyntax(_, _, _, _)
ParseSyntax(syntaxparts, key_mappings, i, st) ==
    IF i > Len(syntaxparts) \/ st.exc # "" THEN st
    ELSE Only({ ParseSyntax(syntaxparts, key_mappings, i + 1, after)
                : after \in {ParseSyntaxPart(syntaxparts[i], key_mappings, st)} })

\* Lines 296-347 on the group at the head of the queue: the locals after
\* them, or the exception.
ParseArgs(grp) ==
    LET none == [exc |-> "", style |-> <<>>, args |-> <<>>, flags |-> <<>>,
                 exists |-> <<>>, keys |-> <<>>, text |-> <<>>]
    IN  IF grp = <<>> THEN [none EXCEPT !.exc = "IndexError"]
        ELSE IF grp[1] \notin get_styles
          THEN [none EXCEPT !.exc = "ValueError: not a recognized style", !.style = grp[1]]
        ELSE Only({
               IF f.exc # "" THEN [none EXCEPT !.exc = f.exc, !.style = grp[1]]
               ELSE ParseSyntax(PySplitWs(StyleJson(grp[1]).syntax), MapJson(grp[1]), 1,
                                [none EXCEPT !.style = grp[1], !.args = f.args,
                                             !.flags = f.flags])
               : f \in {ParseFlags(Tail(grp), <<>>)} })

\* parse_queue.append(args), args being the leftovers behind the style.
Requeue_AtHead(queue, args) == <<args>> \o queue
Requeue(queue, args) == Append(queue, args)

-----------------------------------------------------------------------------
(* parse_input: the layout of the textboxes (lines 358-415) *)

\* repeater is not None: the list is empty for None and holds the name otherwise.
DuplicateRepeater_Unchecked(rep) == FALSE
DuplicateRepeater(rep) == rep # <<>>

\* bpoint: where the text of a textbox that does not repeat is cut.
BreakPoint_AfterBreak(wrapped_text, budget) == find_nth(wrapped_text, NL, budget) + 1
BreakPoint(wrapped_text, budget) == find_nth(wrapped_text, NL, budget)

\* textboxes = {}, repeater = None, torepeat = {}, predicate_data["lines"] = {}
LayoutStart ==
    [exc |-> "", hangs |-> FALSE, textboxes |-> <<>>,
     repeater |-> <<>>, torepeat |-> <<>>, lines |-> <<>>]

\* The body of for textbox in data["textboxes"].keys(), applied to the locals st.
LayoutTextbox(textbox, tbdata, fields, st) ==
    Only({
      IF ~HasKey(fields, field) THEN [st EXCEPT !.exc = "KeyError"]
      ELSE Only({
        IF ~w.returns THEN [st EXCEPT !.hangs = TRUE]
        ELSE IF w.nlines > tbsize[2]
          THEN IF HasKey(tbdata, S_overflow) /\ Get(tbdata, S_overflow).v = S_repeat
                 THEN IF DuplicateRepeater(st.repeater)
                        THEN [st EXCEPT !.exc = "ValueError: duplicate repeating textboxes"]
                        ELSE Only({
                               [st EXCEPT !.repeater = <<textbox>>,
                                          !.textboxes = Put(@, textbox, Head(chunks)),
                                          !.torepeat = Tail(chunks),
                                          !.lines = Put(@, textbox, tbsize[2])]
                               : chunks \in {Paginate(w.textout, tbsize[2])} })
                 ELSE Only({
                        [st EXCEPT !.textboxes = Put(@, textbox, PySlice(w.textout, 0, bpoint)),
                                   !.lines = Put(@, textbox, tbsize[2])]
                        : bpoint \in {BreakPoint(w.textout, tbsize[2])} })
          ELSE [st EXCEPT !.textboxes = Put(@, textbox, w.textout),
                          !.lines = Put(@, textbox, w.nlines)]
        : w \in {wraptext(Get(fields, field), tbsize[1])} })
      : field \in {Get(tbdata, S_text).v},
        tbsize \in {Get(tbdata, S_size).v} })

\* for textbox in data["textboxes"].keys(), from the i-th textbox on.
RECURSIVE LayoutLoop(_, _, _, _)
LayoutLoop(boxes, fields, i, st) ==
    IF i > Len(boxes) \/ st.exc # "" \/ st.hangs THEN st
    ELSE Only({ LayoutLoop(boxes, fields, i + 1, after)
                : after \in {LayoutTextbox(boxes[i].key, boxes[i].val.v, fields, st)} })

\* Lines 358-415 for the style, facts and text fields of the group.
LayoutOf(sty, facts, fields) ==
    Only({
      IF md.exc # "" THEN [LayoutStart EXCEPT !.exc = md.exc]
      ELSE IF ~HasKey(md.data, S_textboxes) THEN [LayoutStart EXCEPT !.exc = "KeyError"]
      ELSE LayoutLoop(Get(md.data, S_textboxes).v, fields, 1, LayoutStart)
      : md \in {merge_data(StyleJson(sty), facts)} })

-----------------------------------------------------------------------------
(* The body of the textbox loop applied to one textbox: a text of at most  *)
(* MaxLen characters bound to its field, and every width, line budget and  *)
(* overflow policy.                                                        *)

LayoutInit ==
    /\ ret = [done |-> FALSE]
    /\ \E t \in SeqsUpTo(Alphabet, MaxLen), width \in 1 .. MaxWidth,
          budget \in 1 .. MaxBudget, repeats \in BOOLEAN :
          call = [fn |-> "layout_textbox", textbox |-> <<"t">>,
                  tbdata |-> Textbox(<<"t">>, width, budget, repeats).v,
                  text |-> <<Entry(<<"t">>, t)>>]

ApplyLayoutTextbox ==
    /\ call.fn = "layout_textbox"
    /\ ~ret.done
    /\ ret' = [done |-> TRUE,
               val |-> LayoutTextbox(call.textbox, call.tbdata, call.text, LayoutStart)]
    /\ UNCHANGED call
    /\ UNCHANGED <<wvars, pvars>>

LayoutNext == ApplyLayoutTextbox

-----------------------------------------------------------------------------
(* parse_input *)

NoFacts == <<Entry(S_flag, <<>>), Entry(S_exists, <<>>)>>

Init ==
    /\ \E rinput \in Inputs : parse_queue = <<rinput>>
    /\ ngenerated = 0
    /\ parts = <<>>
    /\ output = <<>>
    /\ pc = "loop"
    /\ error = ""
    /\ group = 0
    /\ style = <<>>
    /\ predicate_data = NoFacts
    /\ keys = <<>>
    /\ text = <<>>
    /\ textboxes = <<>>
    /\ repeater = <<>>
    /\ torepeat = <<>>

ParseIdle ==
    /\ parse_queue = <<>>
    /\ ngenerated = 0
    /\ parts = <<>>
    /\ output = <<>>
    /\ pc = "idle"
    /\ error = ""
    /\ group = 0
    /\ style = <<>>
    /\ predicate_data = NoFacts
    /\ keys = <<>>
    /\ text = <<>>
    /\ textboxes = <<>>
    /\ repeater = <<>>
    /\ torepeat = <<>>

\* Lines 296-352: parse the group at the head of the queue and requeue what
\* the syntax left over.
ParseGroup ==
    /\ pc = "loop"
    /\ Len(parse_queue) > 0
    /\ \E p \in {ParseArgs(parse_queue[1])} :
           /\ group' = group + 1
           /\ style' = p.style
           /\ predicate_data' = <<Entry(S_flag, p.flags), Entry(S_exists, p.exists)>>
           /\ keys' = p.keys
           /\ text' = IF p.exc # "" THEN <<>> ELSE p.text
           /\ IF p.exc # ""
                THEN /\ pc' = "raised"
                     /\ error' = p.exc
                     /\ UNCHANGED parse_queue
                ELSE /\ pc' = "layout"
                     /\ error' = ""
                     /\ parse_queue' = IF Len(p.args) > 0
                                         THEN Requeue(parse_queue, <<p.style>> \o p.args)
                                         ELSE parse_queue
    /\ textboxes' = <<>>
    /\ repeater' = <<>>
    /\ torepeat' = <<>>
    /\ UNCHANGED <<ngenerated, parts, output>>
    /\ UNCHANGED <<wvars, fvars>>

\* Lines 358-415: resolve the data and lay out every textbox.
Layout ==
    /\ pc = "layout"
    /\ \E l \in {LayoutOf(style, predicate_data, text)} :
           /\ pc' = IF l.hangs THEN "hung" ELSE IF l.exc # "" THEN "raised" ELSE "frame"
           /\ error' = l.exc
           /\ textboxes' = l.textboxes
           /\ repeater' = l.repeater
           /\ torepeat' = l.torepeat
           /\ predicate_data' = Put(predicate_data, S_lines, l.lines)
    /\ UNCHANGED <<parse_queue, ngenerated, parts, output, group, style, keys, text>>
    /\ UNCHANGED <<wvars, fvars>>

\* One pass of the frame loop (lines 417-474): resolve the data again, write
\* the frame, and put the next chunk into the repeating textbox.
Frame ==
    /\ pc = "frame"
    /\ IF repeater = <<>> \/ Len(torepeat) > 0
         THEN \E md \in {merge_data(StyleJson(style), predicate_data)} :
                  IF md.exc # ""
                    THEN /\ pc' = "raised"
                         /\ error' = md.exc
                         /\ UNCHANGED <<ngenerated, parts, textboxes, repeater, torepeat,
                                        predicate_data>>
                    ELSE /\ parts' = Append(parts, [group |-> group, texts |-> textboxes])
                         /\ ngenerated' = ngenerated + 1
                         /\ error' = ""
                         /\ IF repeater = <<>>
                              THEN /\ pc' = "pop"
                                   /\ UNCHANGED <<textboxes, repeater, torepeat, predicate_data>>
                              ELSE /\ pc' = "frame"
                                   /\ textboxes' = Put(textboxes, repeater[1], Head(torepeat))
                                   /\ torepeat' = Tail(torepeat)
                                   /\ predicate_data' =
                                        Put(predicate_data, S_lines,
                                            Put(Get(predicate_data, S_lines), repeater[1],
                                                PyCount(Head(torepeat), NL) + 1))
                                   /\ repeater' = IF Len(Tail(torepeat)) <= 0 THEN <<>> ELSE repeater
         ELSE /\ pc' = "pop"
              /\ UNCHANGED <<ngenerated, parts, textboxes, repeater, torepeat,
                             predicate_data, error>>
    /\ UNCHANGED <<parse_queue, output, group, style, keys, text>>
    /\ UNCHANGED <<wvars, fvars>>

\* Line 476: del parse_queue[0].
PopGroup ==
    /\ pc = "pop"
    /\ parse_queue' = Tail(parse_queue)
    /\ pc' = "loop"
    /\ UNCHANGED <<ngenerated, parts, output, error, group, style, predicate_data, keys,
                   text, textboxes, repeater, torepeat>>
    /\ UNCHANGED <<wvars, fvars>>

\* Lines 479-495: the queue is empty; stack the frames in the order of their
\* numbers.
Stack ==
    /\ pc = "loop"
    /\ Len(parse_queue) = 0
    /\ output' = [i \in 1 .. Len(parts) |-> parts[i].texts]
    /\ pc' = "done"
    /\ UNCHANGED <<parse_queue, ngenerated, parts, error, group, style, predicate_data,
                   keys, text, textboxes, repeater, torepeat>>
    /\ UNCHANGED <<wvars, fvars>>

Next == ParseGroup \/ Layout \/ Frame \/ PopGroup \/ Stack

-----------------------------------------------------------------------------
(* Specifications *)

InitWrap == WrapInit /\ PureIdle /\ ParseIdle
SpecWrap == InitWrap /\ [][WrapNext]_vars

InitPure == PureInit /\ WrapIdle /\ ParseIdle
SpecPure == InitPure /\ [][PureNext]_vars

InitParse == Init /\ WrapIdle /\ PureIdle
Spec == InitParse /\ [][Next]_vars

InitLayout == LayoutInit /\ WrapIdle /\ ParseIdle
SpecLayout == InitLayout /\ [][LayoutNext]_vars

-----------------------------------------------------------------------------
(* Claims about Font.wraptext, checked under SpecWrap *)

\* C1: wraptext returns after finitely many passes of its while loop, for every
\* text and every maxwidth.  A pass is a function of textcut and maxwidth alone,
\* so the loop ends exactly when every pass that does not return leaves a
\* strictly shorter textcut; a pass that leaves textcut as it was repeats forever.
C1_EveryPassShortensTextcut ==
    [][(wpc = "loop" /\ wpc' = "loop") => Len(textcut') < Len(textcut)]_vars

WidestChar(t) ==
    IF t = <<>> THEN 0
    ELSE CHOOSE w \in {CharWidth(t[i]) : i \in 1 .. Len(t)} :
            \A i \in 1 .. Len(t) : CharWidth(t[i]) <= w

\* A line that is one unbreakable token in the degenerate case: it holds no
\* space and not even its first character measures below maxwidth.
UnbreakableToken(line) ==
    /\ line # <<>>
    /\ \A i \in 1 .. Len(line) : line[i] # SP
    /\ CharWidth(line[1]) >= maxwidth

\* C2: when maxwidth is at least the width of the widest character of the text,
\* every line wraptext has emitted that holds a character measures strictly
\* below maxwidth, unless it is one unbreakable token of the degenerate case.
C2_LinesBelowMaxwidth ==
    (maxwidth >= WidestChar(wtext)) =>
        \A line \in {PySplit(textout, NL)[i] : i \in 1 .. Len(PySplit(textout, NL))} :
            line = <<>> \/ textsize(line) < maxwidth \/ UnbreakableToken(line)

\* The wrapped text with every break at a word boundary replaced by a space
\* and every hard break by nothing.
RECURSIVE Reassemble(_, _)
Reassemble(out, kinds) ==
    IF out = <<>> THEN <<>>
    ELSE IF Head(out) = NL
      THEN (IF Head(kinds) = "word" THEN <<SP>> ELSE <<>>)
           \o Reassemble(Tail(out), Tail(kinds))
      ELSE <<Head(out)>> \o Reassemble(Tail(out), kinds)

\* C3: the string wraptext returns, with each break at a word boundary replaced
\* by a space and each hard break by nothing, is the text it was given.
C3_NoCharactersLost ==
    wpc = "done" => Reassemble(textout, wbreaks) = wtext

C3_Witness ==
    /\ wpc = "done"
    /\ \E i \in 1 .. Len(wbreaks) : wbreaks[i] = "word"
    /\ \E i \in 1 .. Len(wbreaks) : wbreaks[i] = "hard"
    /\ textcut # <<>>

-----------------------------------------------------------------------------
(* Claims about the pagination, eval_predicate and merge_dicts, checked    *)
(* under SpecPure                                                          *)

\* C5: the chunks the pagination produces (the first frame's and the queued
\* ones), joined in order with one line break between consecutive chunks, are
\* the wrapped text: no line is missing and none is in two chunks.
C5_PaginationComplete ==
    (call.fn = "paginate" /\ ret.done) =>
        PyJoin(ret.val, NL) = call.wrapped_text

C5_Witness ==
    /\ call.fn = "paginate"
    /\ ret.done
    /\ call.budget = 2
    /\ Len(ret.val) = 3
    /\ \A i \in 1 .. 3 : ret.val[i] # <<>>

\* An atom holds against the facts when the facts have its category and the
\* category lists its value.
AtomHolds(atom, facts) ==
    /\ HasKey(facts, atom.kind)
    /\ InList(Get(facts, atom.kind), atom.value)

DnfHolds(ast, facts) ==
    \E g \in 1 .. Len(ast) : \A i \in 1 .. Len(ast[g]) : AtomHolds(ast[g][i], facts)

\* C7: for an expression of exists: and flag: atoms joined by "&" and "|",
\* eval_predicate is true iff some "|"-separated group has every one of its
\* "&"-separated atoms true against the facts; "default" is true for any facts.
C7_DisjunctionOfConjunctions ==
    (call.fn = "eval_predicate" /\ ret.done) =>
        /\ call.form = "dnf" =>
              ret.val = IF DnfHolds(call.ast, call.predicate_data) THEN "True" ELSE "False"
        /\ call.form = "default" => ret.val = "True"

\* a&b|c with a true, b false and c true.
C7_Witness ==
    /\ call.fn = "eval_predicate"
    /\ ret.done
    /\ call.form = "dnf"
    /\ Len(call.ast) = 2
    /\ Len(call.ast[1]) = 2
    /\ Len(call.ast[2]) = 1
    /\ AtomHolds(call.ast[1][1], call.predicate_data)
    /\ ~AtomHolds(call.ast[1][2], call.predicate_data)
    /\ AtomHolds(call.ast[2][1], call.predicate_data)
    /\ ret.val = "True"

\* C8: for the atom lines:<textboxName>><threshold> and facts whose lines
\* entries are line counts, eval_predicate is true iff facts.lines has an entry
\* for textboxName whose count exceeds threshold, and false otherwise.
C8_LinesAtom ==
    (call.fn = "eval_predicate" /\ ret.done /\ call.form = "lines") =>
        ret.val = IF /\ HasKey(call.predicate_data, S_lines)
                     /\ HasKey(Get(call.predicate_data, S_lines), call.tname)
                     /\ Get(Get(call.predicate_data, S_lines), call.tname) > call.threshold
                    THEN "True" ELSE "False"

\* r is the recursive right-biased union of the trees a and b.
RECURSIVE IsRightBiasedUnion(_, _, _)
IsRightBiasedUnion(r, a, b) ==
    /\ KeySet(r) = KeySet(a) \cup KeySet(b)
    /\ Len(r) = Cardinality(KeySet(r))
    /\ \A k \in KeySet(r) :
          IF HasKey(a, k) /\ HasKey(b, k)
            THEN IF IsDict(Get(a, k)) /\ IsDict(Get(b, k))
                   THEN /\ IsDict(Get(r, k))
                        /\ IsRightBiasedUnion(Get(r, k).v, Get(a, k).v, Get(b, k).v)
                   ELSE Get(r, k) = Get(b, k)
            ELSE IF HasKey(a, k) THEN Get(r, k) = Get(a, k)
            ELSE Get(r, k) = Get(b, k)

\* C9: merge_dicts(a, b) is the recursive right-biased union of a and b.
C9_MergeIsRightBiasedUnion ==
    (call.fn = "merge_dicts" /\ ret.done) =>
        IsRightBiasedUnion(ret.val, call.a, call.b)

\* A two-level conflict: x is a tree on both sides, the two trees disagree on
\* a leaf and each has a key the other lacks; y is a leaf on one side only.
C9_Witness ==
    /\ call.fn = "merge_dicts"
    /\ ret.done
    /\ call.a = <<[key |-> <<"x">>, val |-> Dict(<<[key |-> <<"x">>, val |-> Leaf(1)]>>)],
                  [key |-> <<"y">>, val |-> Leaf(1)]>>
    /\ call.b = <<[key |-> <<"x">>, val |-> Dict(<<[key |-> <<"x">>, val |-> Leaf(2)],
                                                   [key |-> <<"y">>, val |-> Leaf(2)]>>)]>>
    /\ ret.val = <<[key |-> <<"x">>, val |-> Dict(<<[key |-> <<"x">>, val |-> Leaf(2)],
                                                    [key |-> <<"y">>, val |-> Leaf(2)]>>)],
                   [key |-> <<"y">>, val |-> Leaf(1)]>>

-----------------------------------------------------------------------------
(* Claims about parse_input, checked under Spec *)

\* The flag and exists facts of the current group, as the parse left them.
GroupFacts == SubSeq(predicate_data, 1, 2)

\* The frames written for the current group, in the order they were written.
GroupFrames == SelectSeq(parts, LAMBDA f : f.group = group)

\* The textboxes of the effective configuration of the current group.
GroupTextboxes ==
    IF style \notin get_styles THEN <<>>
    ELSE LET md == merge_data(StyleJson(style), GroupFacts)
         IN  IF md.exc # "" \/ ~HasKey(md.data, S_textboxes) THEN <<>>
             ELSE Get(md.data, S_textboxes).v

DeclaredRepeat(tbdata) ==
    HasKey(tbdata, S_overflow) /\ Get(tbdata, S_overflow).v = S_repeat

\* The text of the textbox is bound and wraps to finitely many lines.
Wraps(tbdata) ==
    /\ HasKey(text, Get(tbdata, S_text).v)
    /\ wraptext(Get(text, Get(tbdata, S_text).v), Get(tbdata, S_size).v[1]).returns

WrappedText(tbdata) ==
    wraptext(Get(text, Get(tbdata, S_text).v), Get(tbdata, S_size).v[1]).textout

\* The wrapped text of the textbox has more lines than its line budget.
Overflows(tbdata) ==
    /\ Wraps(tbdata)
    /\ Len(PySplit(WrappedText(tbdata), NL)) > Get(tbdata, S_size).v[2]

\* The names of the repeating textboxes of the current group that overflow.
OverflowingRepeaters ==
    {GroupTextboxes[i].key : i \in {j \in 1 .. Len(GroupTextboxes) :
                                      /\ DeclaredRepeat(GroupTextboxes[j].val.v)
                                      /\ Overflows(GroupTextboxes[j].val.v)}}

\* Lines (i-1)*B+1 .. min(i*B, N) of the N lines, for i = 1 .. ceil(N/B).
ExpectedChunks(lines, B) ==
    [i \in 1 .. ((Len(lines) + B - 1) \div B) |->
        PyJoin(SubSeq(lines, (i - 1) * B + 1, Min(i * B, Len(lines))), NL)]

\* C4: when the processing of a group has ended and the one repeating textbox
\* of the group that overflows has budget B and a wrapped text of N > B lines
\* (every textbox of the group wrapping), the group has ceil(N/B) frames, the
\* i-th frame renders lines (i-1)*B+1 .. min(i*B, N) of the wrapped text, the
\* repeat queue is empty and the group is about to leave the pending queue.
C4_RepeatFramesCoverWrappedText ==
    (/\ pc \in {"pop", "raised"}
     /\ Cardinality(OverflowingRepeaters) = 1
     /\ \A i \in 1 .. Len(GroupTextboxes) : Wraps(GroupTextboxes[i].val.v)) =>
        LET b == CHOOSE name \in OverflowingRepeaters : TRUE
            tbdata == Get(GroupTextboxes, b).v
            expected == ExpectedChunks(PySplit(WrappedText(tbdata), NL),
                                       Get(tbdata, S_size).v[2])
        IN  /\ pc = "pop"
            /\ Len(GroupFrames) = Len(expected)
            /\ \A i \in 1 .. Len(expected) : Get(GroupFrames[i].texts, b) = expected[i]
            /\ torepeat = <<>>
            /\ parse_queue # <<>>

\* The arguments of a group behind its leading f: flags.
RECURSIVE StripFlags(_)
StripFlags(args) ==
    IF args # <<>> /\ PySlice(args[1], 0, 2) = S_fcolon
      THEN StripFlags(Tail(args))
      ELSE args

\* The syntax of the style is a single rtext token.
SingleRtext(sty) ==
    /\ sty \in get_styles
    /\ Len(PySplitWs(StyleJson(sty).syntax)) = 1
    /\ PyPartition(PySplitWs(StyleJson(sty).syntax)[1], ":").head = S_rtext

RtextField(sty) == PyPartition(PySplitWs(StyleJson(sty).syntax)[1], ":").tail

\* The arguments are A ++ ["!REPEAT!"] ++ R with the first !REPEAT! at n and R
\* not empty.
RepeatAt(args, n) ==
    /\ n \in 1 .. (Len(args) - 1)
    /\ args[n] = S_REPEAT
    /\ \A j \in 1 .. (n - 1) : args[j] # S_REPEAT

\* C6: a step that parses a group takes the head of the pending queue, and
\* only once the frame loop of the group before it is over (no repeater, empty
\* repeat queue); for a style with a single rtext token and arguments
\* A ++ ["!REPEAT!"] ++ R behind the flags, R not empty, the text field becomes
\* the space-join of A and [style] ++ R is appended at the tail of the pending
\* queue.  Every frame is written for the group parsed last, and the pending
\* queue only ever loses its head or gains a tail.
C6_RequeueAtTailAfterFrames ==
    [][/\ \/ parse_queue' = parse_queue
          \/ parse_queue # <<>> /\ parse_queue' = Tail(parse_queue)
          \/ /\ Len(parse_queue') = Len(parse_queue) + 1
             /\ SubSeq(parse_queue', 1, Len(parse_queue)) = parse_queue
       /\ parts' # parts =>
             /\ group' = group
             /\ Len(parts') = Len(parts) + 1
             /\ SubSeq(parts', 1, Len(parts)) = parts
             /\ parts'[Len(parts')].group = group
       /\ group' # group =>
             /\ pc = "loop" /\ repeater = <<>> /\ torepeat = <<>>
             /\ parse_queue # <<>>
             /\ parts' = parts
             /\ LET grp == parse_queue[1]
                    args == StripFlags(Tail(grp))
                IN  (grp # <<>> /\ SingleRtext(grp[1])) =>
                       \A n \in 1 .. Len(args) :
                          RepeatAt(args, n) =>
                             /\ style' = grp[1]
                             /\ text' = <<Entry(RtextField(grp[1]),
                                                PyJoin(SubSeq(args, 1, n - 1), SP))>>
                             /\ parse_queue' =
                                  Append(parse_queue,
                                         <<grp[1]>> \o SubSeq(args, n + 1, Len(args)))
      ]_vars

\* aaa aaa !REPEAT! a: the first group has been framed more than once, and the
\* group requeued behind it has then been parsed with the text a and framed.
C6_Witness ==
    /\ pc = "pop"
    /\ group = 2
    /\ style = <<"r">>
    /\ text = <<Entry(<<"b">>, <<"a">>)>>
    /\ parse_queue = <<<<<<"r">>, <<"a">>>>>>
    /\ Len(parts) >= 3
    /\ parts[Len(parts)].group = 2
    /\ \A i \in 1 .. (Len(parts) - 1) : parts[i].group = 1

\* The group was stopped by the duplicate-repeater error.
DuplicateError == pc = "raised" /\ error = "ValueError: duplicate repeating textboxes"

\* The effective configuration of the group declares two repeating textboxes.
TwoDeclaredRepeat ==
    Cardinality({i \in 1 .. Len(GroupTextboxes) :
                    DeclaredRepeat(GroupTextboxes[i].val.v)}) >= 2

\* C10 as stated: a group whose effective configuration declares two textboxes
\* with overflow policy "repeat" ends in the fatal error once it is laid out,
\* and no frame of it is written.
C10_TwoDeclaredIsFatal ==
    (TwoDeclaredRepeat /\ pc # "layout") =>
        /\ pc = "raised"
        /\ GroupFrames = <<>>

\* C10, amended: a group in which two textboxes with overflow policy "repeat"
\* both overflow their line budgets (every textbox of the group wrapping) ends
\* its layout in the fatal duplicate-repeater error, and no frame of it is
\* written; the error is raised for no other group, so declaring two repeating
\* textboxes of which at most one overflows is not an error.
C10_TwoOverflowingIsFatal ==
    /\ (/\ pc # "layout"
        /\ Cardinality(OverflowingRepeaters) >= 2
        /\ \A i \in 1 .. Len(GroupTextboxes) : Wraps(GroupTextboxes[i].val.v)) =>
          /\ DuplicateError
          /\ GroupFrames = <<>>
    /\ DuplicateError => Cardinality(OverflowingRepeaters) >= 2

C10_Witness ==
    /\ DuplicateError
    /\ OverflowingRepeaters = {<<"t">>, <<"b">>}
    /\ TwoDeclaredRepeat
    /\ GroupFrames = <<>>

-----------------------------------------------------------------------------
(* Claims about the layout of one textbox, checked under SpecLayout *)

\* The wrapped text of the textbox laid out, and its lines.
LaidOutWrapped ==
    wraptext(Get(call.text, Get(call.tbdata, S_text).v), Get(call.tbdata, S_size).v[1])
LaidOutLines == PySplit(LaidOutWrapped.textout, NL)
LaidOutBudget == Get(call.tbdata, S_size).v[2]

\* The textbox does not repeat and its wrapped text is longer than its budget.
Truncates ==
    /\ call.fn = "layout_textbox"
    /\ ret.done
    /\ ~DeclaredRepeat(call.tbdata)
    /\ LaidOutWrapped.returns
    /\ Len(LaidOutLines) > LaidOutBudget

\* C11: for a textbox without overflow policy "repeat" whose wrapped text has
\* more lines than its line budget B, the text of the textbox is the first B
\* lines of the wrapped text joined by line breaks, nothing more, and the line
\* count recorded for the textbox is B.
C11_TruncatesToBudget ==
    Truncates =>
        /\ ret.val.exc = "" /\ ~ret.val.hangs
        /\ Get(ret.val.textboxes, call.textbox)
              = PyJoin(SubSeq(LaidOutLines, 1, LaidOutBudget), NL)
        /\ Get(ret.val.lines, call.textbox) = LaidOutBudget
        /\ ret.val.repeater = <<>> /\ ret.val.torepeat = <<>>

\* Four lines or more cut to a budget of two, the second line kept whole.
C11_Witness ==
    /\ Truncates
    /\ LaidOutBudget = 2
    /\ Len(LaidOutLines) >= 4
    /\ Len(LaidOutLines[2]) >= 2
    /\ Get(ret.val.textboxes, call.textbox) = LaidOutLines[1] \o <<NL>> \o LaidOutLines[2]

-----------------------------------------------------------------------------
(* Claims about the termination of parse_input, checked under Spec.        *)
(* parse_input is one thread that is never suspended, so it runs until it  *)
(* has no step left; it has no step left only once the frames are stacked, *)
(* an exception has ended it, or a wrap call does not return.              *)

\* The groups of the pending queue that are still to be parsed: the head is
\* parsed as soon as the loop body has been entered.
Unparsed ==
    IF pc = "loop" \/ parse_queue = <<>> THEN parse_queue ELSE Tail(parse_queue)

\* The style names and arguments still to be parsed.
RECURSIVE Pending(_)
Pending(queue) ==
    IF queue = <<>> THEN 0 ELSE Len(Head(queue)) + 1 + Pending(Tail(queue))

\* How far the loop body is from its end.
Phase ==
    CASE pc = "layout" -> 4
      [] pc = "frame" -> 3
      [] pc = "pop" -> 2
      [] pc = "loop" -> 1
      [] OTHER -> 0

\* The rank of a state: what is still to be parsed, then the phase of the
\* loop body, then the chunks still to be framed.
Rank == <<Pending(Unparsed), Phase, Len(torepeat)>>

\* The lexicographic order on ranks, which is well-founded.
LexLess(r, q) ==
    \/ r[1] < q[1]
    \/ r[1] = q[1] /\ r[2] < q[2]
    \/ r[1] = q[1] /\ r[2] = q[2] /\ r[3] < q[3]

\* C12: every step of parse_input lowers the rank, so no invocation takes
\* infinitely many steps: it ends with the frames stacked, by an exception, or
\* in a wrap call that does not return.  In particular a pass of the frame
\* loop that stays in the loop shortens the repeat queue, a group put into
\* the pending queue is strictly shorter than the group whose parse put it
\* there, and the frames are stacked only once the pending queue is empty.
C12_ReachesDone ==
    [][/\ LexLess(Rank', Rank)
       /\ (pc = "frame" /\ pc' = "frame") => Len(torepeat') < Len(torepeat)
       /\ (Len(parse_queue') > Len(parse_queue)) =>
             Len(parse_queue'[Len(parse_queue')]) < Len(parse_queue[1])
       /\ (pc' = "done") => (pc = "loop" /\ parse_queue' = <<>>)]_vars

\* !REPEAT! !REPEAT! aaa aaa: three groups, the last framed more than once,
\* then the frames stacked.
C12_Witness ==
    /\ pc = "done"
    /\ group = 3
    /\ parse_queue = <<>>
    /\ Len(parts) >= 5
    /\ Len(output) = Len(parts)

=============================================================================
